---- MODULE Spec2Model ----
(***************************************************************************)
(* Online ADD COLUMN of ddl/column.go: the schema mutators addColumn and   *)
(* adjustColumnOffset, the job state machine onColumnAdd and the backfill  *)
(* backfillColumn, run against a live key-value store.                     *)
(***************************************************************************)
EXTENDS Integers, Sequences, FiniteSets, TLC

\* ---------------------------------------------------------------- bounds
MaxHandle == 2      \* row handles are 1..MaxHandle
MaxVer == 3         \* store versions are 1..MaxVer
MaxJobs == 1        \* add-column jobs the owner takes from the queue
MaxCols == 4        \* SpecMutator: columns a table grows to
MaxSeqJobs == 2     \* SpecJobs: add-column jobs run one after another

\* ------------------------------------------------------- model constants
StateNone == "none"
StateDeleteOnly == "delete only"
StateWriteOnly == "write only"
StateReorgnization == "write reorganization"
StatePublic == "public"

JobNone == "none"
JobRunning == "running"
JobCancelled == "cancelled"
JobDone == "done"

ColumnPositionNone == "none"
ColumnPositionFirst == "first"
ColumnPositionAfter == "after"

Handles == 1..MaxHandle
Versions == 1..MaxVer

\* ------------------------------------------------------------ TableInfo
\* ColumnInfo: [Name, Offset, TempOffset, State]; an IndexInfo is the
\* sequence of the Offsets of its IndexColumns.
Col(n, o, t, s) == [Name |-> n, Offset |-> o, TempOffset |-> t, State |-> s]

\* findCol: the index (1-based) of the column called name, 0 for nil.
findCol(cols, name) ==
  IF \E i \in 1..Len(cols) : cols[i].Name = name
  THEN CHOOSE i \in 1..Len(cols) :
         /\ cols[i].Name = name
         /\ \A j \in 1..(i-1) : cols[j].Name # name
  ELSE 0

\* The position addColumn inserts at; -1 is the "No such column" error.
ColumnPosition(cols, spec) ==
  IF spec.PosType = ColumnPositionFirst THEN 0
  ELSE IF spec.PosType = ColumnPositionAfter
       THEN IF findCol(cols, spec.RelativeColumn) = 0 THEN -1
            ELSE cols[findCol(cols, spec.RelativeColumn)].Offset + 1
  ELSE Len(cols)

\* addColumn: [err, tbl]; on an error tblInfo is returned untouched.
addColumnOffsetAtPosition(tblInfo, spec) ==
  LET cols == tblInfo.Columns
      position == ColumnPosition(cols, spec)
  IN IF position = -1 \/ ~spec.ColumnOK
     THEN [err |-> TRUE, tbl |-> tblInfo]
     ELSE LET colInfo == Col(spec.Name, position, position, StateNone)
              newCols == SubSeq(cols, 1, position) \o <<colInfo>>
                           \o SubSeq(cols, position + 1, Len(cols))
          IN [err |-> FALSE,
              tbl |-> [tblInfo EXCEPT !.Columns =
                        [i \in 1..Len(newCols) |->
                           [newCols[i] EXCEPT !.TempOffset = i - 1]]]]
addColumnOffsetIsIndex(tblInfo, spec) ==
  LET cols == tblInfo.Columns
      position == ColumnPosition(cols, spec)
  IN IF position = -1 \/ ~spec.ColumnOK
     THEN [err |-> TRUE, tbl |-> tblInfo]
     ELSE LET colInfo == Col(spec.Name, Len(cols), position, StateNone)
              newCols == SubSeq(cols, 1, position) \o <<colInfo>>
                           \o SubSeq(cols, position + 1, Len(cols))
          IN [err |-> FALSE,
              tbl |-> [tblInfo EXCEPT !.Columns =
                        [i \in 1..Len(newCols) |->
                           [newCols[i] EXCEPT !.TempOffset = i - 1,
                                              !.Offset = i - 1]]]]
addColumn(tblInfo, spec) ==
  LET cols == tblInfo.Columns
      position == ColumnPosition(cols, spec)
  IN IF position = -1 \/ ~spec.ColumnOK
     THEN [err |-> TRUE, tbl |-> tblInfo]
     ELSE LET colInfo == Col(spec.Name, Len(cols), position, StateNone)
              newCols == SubSeq(cols, 1, position) \o <<colInfo>>
                           \o SubSeq(cols, position + 1, Len(cols))
          IN [err |-> FALSE,
              tbl |-> [tblInfo EXCEPT !.Columns =
                        [i \in 1..Len(newCols) |->
                           [newCols[i] EXCEPT !.TempOffset = i - 1]]]]

\* offsetChanged of adjustColumnOffset: old Offset -> new Offset; a later
\* column overwrites the entry of an earlier one with the same Offset.
offsetChanged(columns) ==
  LET keys == {columns[i].Offset : i \in 1..Len(columns)}
      lastOf(o) == CHOOSE i \in 1..Len(columns) :
                     /\ columns[i].Offset = o
                     /\ \A j \in (i+1)..Len(columns) : columns[j].Offset # o
  IN [o \in keys |-> columns[lastOf(o)].TempOffset]

adjustColumnOffsetNoIndex(tblInfo) ==
  [tblInfo EXCEPT !.Columns =
     [i \in 1..Len(tblInfo.Columns) |->
        [tblInfo.Columns[i] EXCEPT !.Offset = tblInfo.Columns[i].TempOffset]]]

adjustColumnOffset(tblInfo) ==
  LET m == offsetChanged(tblInfo.Columns)
  IN [Columns |-> [i \in 1..Len(tblInfo.Columns) |->
                     [tblInfo.Columns[i] EXCEPT
                        !.Offset = tblInfo.Columns[i].TempOffset]],
      Indices |-> [k \in 1..Len(tblInfo.Indices) |->
                     [n \in 1..Len(tblInfo.Indices[k]) |->
                        IF tblInfo.Indices[k][n] \in DOMAIN m
                        THEN m[tblInfo.Indices[k][n]]
                        ELSE tblInfo.Indices[k][n]]]]

\* ------------------------------------------------------------- the store
TableID == 2
NoKey == <<>>
FirstKey == <<TableID, 0>>
RecordKey(h) == <<TableID, h>>
KeyLess(k1, k2) == k1[1] < k2[1] \/ (k1[1] = k2[1] /\ k1[2] < k2[2])
HasPrefixAnyTable(k) == TRUE
HasPrefix(k) == k[1] = TableID
DecodeHandleFromRowKey(k) == k[2]

MinKey(ks) == CHOOSE k \in ks : \A k2 \in ks : k2 = k \/ KeyLess(k, k2)
\* NewMvccIterator(firstKey, ver): the first key at or after start.
SeekKey(ks, start) ==
  LET ge == {k \in ks : k = start \/ KeyLess(start, k)}
  IN IF ge = {} THEN NoKey ELSE MinKey(ge)
\* kv.NextUntil(it, RowKeyPrefixFilter(rk)): the first key after the row's.
NextUntil(ks, cur) ==
  LET gt == {k \in ks : KeyLess(cur, k)}
  IN IF gt = {} THEN NoKey ELSE MinKey(gt)

VARIABLES
  tbl,        \* the TableInfo persisted in meta
  job,        \* the Job record the owner holds and stores after each call
  njobs,      \* jobs taken from the queue so far
  rows,       \* live store: handles of the rows that exist
  colv,       \* live store: the new column's value per handle ("nil": none)
  ver,        \* the store's current version
  hist,       \* MVCC: the row handles visible at each version still in
              \* use (the current one, the job's SnapshotVer, a scan's)
  hasOther,   \* whether keys of other tables surround the table's keys
  pc,         \* "idle", or "scan" while a backfillColumn run is in its loop
  sver,       \* the version the running backfillColumn was called with
  it,         \* the running scan's iterator key (NoKey: not valid)
  persisted,  \* history: column states written by successful UpdateTable
  last,       \* history: outcome of the last returned onColumnAdd call
  lastRow,    \* history: the last per-row backfill transaction and the
              \* handles this run of backfillColumn has gone through
  mut,        \* history: the last schema mutator application
  rtx         \* SpecRowTxn: the open per-row backfill transaction, the
              \* open concurrent delete, and the commit version of each key

vars == <<tbl, job, njobs, rows, colv, ver, hist, hasOther, pc, sver, it,
          persisted, last, lastRow, mut, rtx>>
storeVars == <<rows, colv, ver, hist, hasOther>>
scanVars == <<pc, sver, it>>

NewNames == <<"c", "d", "e", "f", "g">>
Public2 == <<Col("a", 0, 0, StatePublic), Col("b", 1, 1, StatePublic)>>
InitTable == [Columns |-> Public2, Indices |-> <<<<0>>, <<1, 0>>>>]

Spec0(n, pt, rel, dec, cok) ==
  [Name |-> n, PosType |-> pt, RelativeColumn |-> rel,
   DecodeOK |-> dec, ColumnOK |-> cok]
NoArgs == Spec0("", ColumnPositionNone, "", FALSE, FALSE)
\* The AlterSpecifications a job is created with: the valid positions and
\* one of each validation failure.
JobArgs(n) ==
  {Spec0(n, ColumnPositionNone, "", TRUE, TRUE),
   Spec0(n, ColumnPositionFirst, "", TRUE, TRUE),
   Spec0(n, ColumnPositionAfter, "a", TRUE, TRUE),
   Spec0(n, ColumnPositionAfter, "z", TRUE, TRUE),
   Spec0("a", ColumnPositionNone, "", TRUE, TRUE),
   Spec0(n, ColumnPositionNone, "", FALSE, TRUE),
   Spec0(n, ColumnPositionNone, "", TRUE, FALSE)}

NoJob == [State |-> JobNone, SchemaState |-> StateNone, SnapshotVer |-> 0,
          Args |-> NoArgs]
NoLast == [kind |-> "none", ret |-> "nil", gen |-> "no", upd |-> 0]
NoRow == [h |-> 0, checked |-> FALSE, existed |-> FALSE, had |-> "nil",
          wrote |-> FALSE, err |-> FALSE, seq |-> <<>>]
NoTxn == [pc |-> "none", h |-> 0, start |-> 0, exist |-> FALSE,
          had |-> "nil", tries |-> 0]
NoRtx == [b |-> NoTxn, d |-> NoTxn,
          rowVer |-> [h \in Handles |-> 1], colVer |-> [h \in Handles |-> 1]]
NoMut == [op |-> "none", pre |-> [Columns |-> <<>>, Indices |-> <<>>],
          spec |-> NoArgs, err |-> FALSE]

Init ==
  /\ tbl = InitTable
  /\ job = NoJob
  /\ njobs = 0
  /\ rows \in SUBSET Handles
  /\ colv = [h \in Handles |-> "nil"]
  /\ ver = 1
  /\ hist = [v \in Versions |-> IF v = 1 THEN rows ELSE {}]
  /\ hasOther \in BOOLEAN
  /\ pc = "idle" /\ sver = 0 /\ it = NoKey
  /\ persisted = <<>>
  /\ last = NoLast
  /\ lastRow = NoRow
  /\ mut = NoMut
  /\ rtx = NoRtx

\* ----------------------------------------------------------- onColumnAdd
ColState(t, name) ==
  IF findCol(t.Columns, name) = 0 THEN StateNone
  ELSE t.Columns[findCol(t.Columns, name)].State

SetColState(t, name, st) ==
  [t EXCEPT !.Columns[findCol(t.Columns, name)].State = st]

CancelJobForgotten(j) == j
CancelJob(j) == [j EXCEPT !.State = JobCancelled]

\* Lines 96-128: load the table, decode the arguments, find or add the
\* column, take a schema version.  kind "ok" carries the in-memory tblInfo.
PrologueNoVersionCheck(tblInfo, j, fail) ==
  LET spec == j.Args
      ci == findCol(tblInfo.Columns, spec.Name)
      added == addColumn(tblInfo, spec)
      R(kind, t, jj, gen) ==
        [kind |-> kind, tbl |-> t, job |-> jj, gen |-> gen]
  IN IF fail = "getTableInfo" THEN R("getTableInfo", tblInfo, j, "no")
     ELSE IF ~spec.DecodeOK THEN R("decode", tblInfo, CancelJob(j), "no")
     ELSE IF ci # 0 /\ tblInfo.Columns[ci].State = StatePublic
          THEN R("dup", tblInfo, CancelJob(j), "no")
     ELSE IF ci = 0 /\ added.err
          THEN R("addColumn", tblInfo, CancelJob(j), "no")
     ELSE R("ok", IF ci = 0 THEN added.tbl ELSE tblInfo, j,
            IF fail = "GenSchemaVersion" THEN "fail" ELSE "ok")
Prologue(tblInfo, j, fail) ==
  LET spec == j.Args
      ci == findCol(tblInfo.Columns, spec.Name)
      added == addColumn(tblInfo, spec)
      R(kind, t, jj, gen) ==
        [kind |-> kind, tbl |-> t, job |-> jj, gen |-> gen]
  IN IF fail = "getTableInfo" THEN R("getTableInfo", tblInfo, j, "no")
     ELSE IF ~spec.DecodeOK THEN R("decode", tblInfo, CancelJob(j), "no")
     ELSE IF ci # 0 /\ tblInfo.Columns[ci].State = StatePublic
          THEN R("dup", tblInfo, CancelJob(j), "no")
     ELSE IF ci = 0 /\ added.err
          THEN R("addColumn", tblInfo, CancelJob(j), "no")
     ELSE IF fail = "GenSchemaVersion" THEN R("gen", tblInfo, j, "fail")
     ELSE R("ok", IF ci = 0 THEN added.tbl ELSE tblInfo, j, "ok")

\* The switch of lines 130-151: the state a phase transition moves to.
NextColumnStateSkip(st) ==
  CASE st = StateNone -> StateDeleteOnly
    [] st = StateDeleteOnly -> StateReorgnization
    [] st = StateWriteOnly -> StateReorgnization
    [] OTHER -> st
NextColumnStateJump(st) ==
  CASE st = StateNone -> StateDeleteOnly
    [] st = StateDeleteOnly -> StateWriteOnly
    [] st = StateWriteOnly -> StatePublic
    [] OTHER -> st
NextColumnState(st) ==
  CASE st = StateNone -> StateDeleteOnly
    [] st = StateDeleteOnly -> StateWriteOnly
    [] st = StateWriteOnly -> StateReorgnization
    [] OTHER -> st

\* Lines 131-150: one phase transition and its UpdateTable.
Transition(persist, t, j, fail) ==
  LET name == j.Args.Name
      st == ColState(t, name)
      nx == NextColumnState(st)
      j2 == [j EXCEPT !.SchemaState = nx,
                      !.SnapshotVer = IF st = StateWriteOnly THEN 0 ELSE @]
  IN IF fail = "UpdateTable"
     THEN [tbl |-> persist, job |-> j2, ret |-> "err", upd |-> 1, wrote |-> <<>>]
     ELSE [tbl |-> SetColState(t, name, nx), job |-> j2, ret |-> "nil",
           upd |-> 1, wrote |-> <<nx>>]

\* Lines 154-162: the version the backfill is anchored at.
AnchorVerReread(snapshotVer, cur) == cur
AnchorVer(snapshotVer, cur) == IF snapshotVer = 0 THEN cur ELSE snapshotVer

\* Lines 172-192: what onColumnAdd does with runReorgJob's outcome
\* ("timeout": errWaitReorgTimeout, "err": another error, "ok": nil).
ReorgResultNoTimeoutCheck(outcome, t, j, fail) ==
  IF outcome # "ok"
  THEN [tbl |-> t, job |-> j, ret |-> "err", upd |-> 0, wrote |-> <<>>]
  ELSE IF fail = "UpdateTable"
  THEN [tbl |-> t, job |-> j, ret |-> "err", upd |-> 1, wrote |-> <<>>]
  ELSE [tbl |-> SetColState(adjustColumnOffset(t), j.Args.Name, StatePublic),
        job |-> [j EXCEPT !.SchemaState = StatePublic, !.State = JobDone],
        ret |-> "nil", upd |-> 1, wrote |-> <<StatePublic>>]
ReorgResultNotDone(outcome, t, j, fail) ==
  IF outcome = "timeout"
  THEN [tbl |-> t, job |-> j, ret |-> "nil", upd |-> 0, wrote |-> <<>>]
  ELSE IF outcome = "err"
  THEN [tbl |-> t, job |-> j, ret |-> "err", upd |-> 0, wrote |-> <<>>]
  ELSE IF fail = "UpdateTable"
  THEN [tbl |-> t, job |-> j, ret |-> "err", upd |-> 1, wrote |-> <<>>]
  ELSE [tbl |-> SetColState(adjustColumnOffset(t), j.Args.Name, StatePublic),
        job |-> [j EXCEPT !.SchemaState = StatePublic],
        ret |-> "nil", upd |-> 1, wrote |-> <<StatePublic>>]
ReorgResultErrReanchors(outcome, t, j, fail) ==
  IF outcome = "timeout"
  THEN [tbl |-> t, job |-> j, ret |-> "nil", upd |-> 0, wrote |-> <<>>]
  ELSE IF outcome = "err"
  THEN [tbl |-> t, job |-> [j EXCEPT !.SnapshotVer = 0], ret |-> "err",
        upd |-> 0, wrote |-> <<>>]
  ELSE IF fail = "UpdateTable"
  THEN [tbl |-> t, job |-> j, ret |-> "err", upd |-> 1, wrote |-> <<>>]
  ELSE [tbl |-> SetColState(adjustColumnOffset(t), j.Args.Name, StatePublic),
        job |-> [j EXCEPT !.SchemaState = StatePublic, !.State = JobDone],
        ret |-> "nil", upd |-> 1, wrote |-> <<StatePublic>>]
ReorgResultDoneAnyway(outcome, t, j, fail) ==
  IF outcome = "timeout"
  THEN [tbl |-> t, job |-> j, ret |-> "nil", upd |-> 0, wrote |-> <<>>]
  ELSE IF outcome = "err"
  THEN [tbl |-> t, job |-> j, ret |-> "err", upd |-> 0, wrote |-> <<>>]
  ELSE IF fail = "UpdateTable"
  THEN [tbl |-> t,
        job |-> [j EXCEPT !.SchemaState = StatePublic, !.State = JobDone],
        ret |-> "nil", upd |-> 1, wrote |-> <<>>]
  ELSE [tbl |-> SetColState(adjustColumnOffset(t), j.Args.Name, StatePublic),
        job |-> [j EXCEPT !.SchemaState = StatePublic, !.State = JobDone],
        ret |-> "nil", upd |-> 1, wrote |-> <<StatePublic>>]
ReorgResult(outcome, t, j, fail) ==
  IF outcome = "timeout"
  THEN [tbl |-> t, job |-> j, ret |-> "nil", upd |-> 0, wrote |-> <<>>]
  ELSE IF outcome = "err"
  THEN [tbl |-> t, job |-> j, ret |-> "err", upd |-> 0, wrote |-> <<>>]
  ELSE IF fail = "UpdateTable"
  THEN [tbl |-> t, job |-> j, ret |-> "err", upd |-> 1, wrote |-> <<>>]
  ELSE [tbl |-> SetColState(adjustColumnOffset(t), j.Args.Name, StatePublic),
        job |-> [j EXCEPT !.SchemaState = StatePublic, !.State = JobDone],
        ret |-> "nil", upd |-> 1, wrote |-> <<StatePublic>>]

SnapKeys(v) ==
  {RecordKey(h) : h \in hist[v]}
    \cup (IF hasOther THEN {<<TableID - 1, 1>>, <<TableID + 1, 1>>} ELSE {})

InvokeFails == {"none", "getTableInfo", "GenSchemaVersion", "UpdateTable",
                "CurrentVersion", "getTable", "GetSnapshot", "GetTxn"}

\* The owner takes the next add-column job from the queue, the max-th at
\* most.
TakeJob(args, max) ==
  /\ job.State \in {JobNone, JobCancelled, JobDone}
  /\ pc = "idle"
  /\ njobs < max
  /\ njobs' = njobs + 1
  /\ job' = [State |-> JobRunning, SchemaState |-> StateNone,
             SnapshotVer |-> 0, Args |-> args]
  /\ colv' = [h \in Handles |-> "nil"]
  /\ persisted' = <<>>
  /\ last' = NoLast
  /\ lastRow' = NoRow
  /\ UNCHANGED <<tbl, rows, ver, hist, hasOther, scanVars, mut, rtx>>
SubmitJob(args) == TakeJob(args, MaxJobs)

\* One call of onColumnAdd, up to its return or, in the reorganization
\* phase, up to the first iteration of backfillColumn's loop.
onColumnAdd(fail) ==
  /\ pc = "idle"
  /\ LET p == Prologue(tbl, job, fail)
         st == ColState(p.tbl, job.Args.Name)
         Return(t, j, kind, ret, upd, wrote) ==
           /\ tbl' = t
           /\ job' = j
           /\ last' = [kind |-> kind, ret |-> ret, gen |-> p.gen, upd |-> upd]
           /\ persisted' = persisted \o wrote
           /\ UNCHANGED <<scanVars, lastRow>>
     IN IF p.kind # "ok"
        THEN Return(tbl, p.job, p.kind, "err", 0, <<>>)
        ELSE IF st \in {StateNone, StateDeleteOnly, StateWriteOnly}
        THEN LET r == Transition(tbl, p.tbl, job, fail)
             IN Return(r.tbl, r.job, "transition", r.ret, r.upd, r.wrote)
        ELSE IF st # StateReorgnization
        THEN Return(tbl, job, "invalid", "err", 0, <<>>)
        ELSE IF job.SnapshotVer = 0 /\ fail = "CurrentVersion"
        THEN Return(tbl, job, "CurrentVersion", "err", 0, <<>>)
        ELSE LET j2 == [job EXCEPT !.SnapshotVer = AnchorVer(@, ver)]
             IN IF fail \in {"getTable", "GetSnapshot", "GetTxn"}
                THEN Return(tbl, j2, "backfill", "err", 0, <<>>)
                ELSE /\ job' = j2
                     /\ pc' = "scan"
                     /\ sver' = j2.SnapshotVer
                     /\ it' = SeekKey(SnapKeys(j2.SnapshotVer), FirstKey)
                     /\ last' = [kind |-> IF job.SnapshotVer = 0
                                          THEN "anchor" ELSE "reuse",
                                 ret |-> "nil",
                                 gen |-> p.gen, upd |-> 0]
                     /\ lastRow' = NoRow
                     /\ UNCHANGED <<tbl, persisted>>
  /\ UNCHANGED <<njobs, storeVars, mut, rtx>>

\* The owner calls onColumnAdd for the running job.
Invoke(fail) == job.State = JobRunning /\ onColumnAdd(fail)
\* onColumnAdd is called once more for a job that is already Done.
InvokeAgain(fail) == job.State = JobDone /\ onColumnAdd(fail)

\* -------------------------------------------------------- backfillColumn
\* Lines 242-276: the per-row transaction.  exist: checkRowExist; had: the
\* value txn.Get(backfillKey) finds; fail: the store call that errors.
\* A transaction that returns an error commits nothing.
BackfillRowTxnResurrect(exist, had, fail) ==
  IF fail \in {"exist", "get", "lock", "set", "commit"}
  THEN [write |-> FALSE, err |-> TRUE]
  ELSE [write |-> TRUE, err |-> FALSE]
BackfillRowTxn(exist, had, fail) ==
  IF fail = "exist" THEN [write |-> FALSE, err |-> TRUE]
  ELSE IF ~exist THEN [write |-> FALSE, err |-> FALSE]
  ELSE IF fail \in {"get", "lock", "set", "commit"}
  THEN [write |-> FALSE, err |-> TRUE]
  ELSE [write |-> TRUE, err |-> FALSE]

RowFails == {"none", "exist", "get", "lock", "set", "commit", "NextUntil"}
EndFails == {"none", "Commit", "UpdateTable"}

\* Return from onColumnAdd after runReorgJob reported outcome.
ReorgReturn(outcome, kind, fail) ==
  LET r == ReorgResult(outcome, tbl, job, fail)
  IN /\ tbl' = r.tbl
     /\ job' = r.job
     /\ last' = [kind |-> kind, ret |-> r.ret, gen |-> last.gen,
                 upd |-> r.upd]
     /\ persisted' = persisted \o r.wrote
     /\ pc' = "idle"
     /\ it' = NoKey
     /\ sver' = 0
     /\ lastRow' = NoRow

\* One iteration of the loop of lines 226-285.
BackfillRow(fail) ==
  /\ pc = "scan"
  /\ it # NoKey
  /\ HasPrefix(it)
  /\ LET h == DecodeHandleFromRowKey(it)
         r == BackfillRowTxn(h \in rows, colv[h], fail)
     IN /\ colv' = IF r.write THEN [colv EXCEPT ![h] = "dflt"] ELSE colv
        /\ IF fail = "NextUntil"
           THEN ReorgReturn("err", "backfill", "none")
           ELSE /\ it' = NextUntil(SnapKeys(sver), it)
                /\ lastRow' = [h |-> h, checked |-> fail # "exist",
                               existed |-> h \in rows, had |-> colv[h],
                               wrote |-> r.write, err |-> r.err,
                               seq |-> Append(lastRow.seq, h)]
                /\ UNCHANGED <<tbl, job, last, persisted, pc, sver>>
  /\ UNCHANGED <<njobs, rows, ver, hist, hasOther, mut, rtx>>

\* The loop has ended: txn.Commit, then lines 180-192.
ReorgEnd(fail) ==
  /\ pc = "scan"
  /\ IF it = NoKey THEN TRUE ELSE ~HasPrefix(it)
  /\ IF fail = "Commit"
     THEN ReorgReturn("err", "Commit", "none")
     ELSE ReorgReturn("ok", "finish", fail)
  /\ UNCHANGED <<njobs, storeVars, mut, rtx>>

\* runReorgJob's time budget ends before the backfill does.
ReorgTimeout ==
  /\ pc = "scan"
  /\ ReorgReturn("timeout", "timeout", "none")
  /\ UNCHANGED <<njobs, storeVars, mut, rtx>>

\* ------------------------------------------- concurrent table operations
\* Statements of other sessions while the job runs, under the schema state
\* persisted in meta; the rows written before the job are Init's choice.
WritesColumn ==
  /\ job.State \in {JobRunning, JobDone}
  /\ ColState(tbl, job.Args.Name)
       \in {StateWriteOnly, StateReorgnization, StatePublic}
  /\ \E i \in 1..Len(NewNames) : NewNames[i] = job.Args.Name

Commit(newRows) ==
  /\ job.State = JobRunning
  /\ ver < MaxVer
  /\ ver' = ver + 1
  /\ rows' = newRows
  /\ hist' = [v \in Versions |->
                IF v = ver + 1 THEN newRows
                ELSE IF v \in {job.SnapshotVer, sver} THEN hist[v]
                ELSE {}]

InsertRow(h) ==
  /\ h \notin rows
  /\ Commit(rows \cup {h})
  /\ colv' = [colv EXCEPT ![h] = IF WritesColumn THEN "w" ELSE "nil"]
  /\ UNCHANGED <<tbl, job, njobs, hasOther, scanVars, persisted, last,
                 lastRow, mut, rtx>>

DeleteRow(h) ==
  /\ h \in rows
  /\ Commit(rows \ {h})
  /\ colv' = [colv EXCEPT ![h] = "nil"]
  /\ UNCHANGED <<tbl, job, njobs, hasOther, scanVars, persisted, last,
                 lastRow, mut, rtx>>

UpdateRow(h) ==
  /\ h \in rows
  /\ WritesColumn
  /\ colv[h] # "w"
  /\ colv' = [colv EXCEPT ![h] = "w"]
  /\ UNCHANGED <<tbl, job, njobs, rows, ver, hist, hasOther, scanVars,
                 persisted, last, lastRow, mut, rtx>>

Next ==
  \/ \E i \in 1..Len(NewNames) :
       /\ i = njobs + 1
       /\ \E args \in JobArgs(NewNames[i]) : SubmitJob(args)
  \/ \E fail \in InvokeFails : Invoke(fail)
  \/ \E fail \in RowFails : BackfillRow(fail)
  \/ \E fail \in EndFails : ReorgEnd(fail)
  \/ ReorgTimeout
  \/ \E h \in Handles : InsertRow(h)
  \/ \E h \in Handles : DeleteRow(h)
  \/ \E h \in Handles : UpdateRow(h)

Spec == Init /\ [][Next]_vars

\* The owner re-invokes onColumnAdd; store calls eventually succeed and a
\* backfill attempt eventually gets through each row within the budget.
Fairness ==
  /\ WF_vars(Invoke("none"))
  /\ \A h \in Handles : SF_vars(BackfillRow("none") /\ it = RecordKey(h))
  /\ SF_vars(ReorgEnd("none"))

\* One job driven from a full table that lies between other tables' keys.
InitLive == Init /\ rows = Handles /\ hasOther
NextLive == Next /\ (njobs = 0 \/ njobs' = njobs)
LiveSpec == InitLive /\ [][NextLive]_vars /\ Fairness

\* ------------------------------------- a Done job invoked once more
NextReinvoke == Next \/ \E fail \in InvokeFails : InvokeAgain(fail)
SpecReinvoke == Init /\ [][NextReinvoke]_vars

\* --------------------------------- add-column jobs one after another
\* Positions relative to the columns of the initial table and to the
\* columns earlier jobs added.
SeqArgs(n) ==
  JobArgs(n) \cup {Spec0(n, ColumnPositionAfter, rel, TRUE, TRUE) :
                     rel \in {"b", "c"}}
InitJobs == Init /\ rows = Handles /\ ~hasOther
NextJobs ==
  \/ \E i \in 1..Len(NewNames) :
       /\ i = njobs + 1
       /\ \E args \in SeqArgs(NewNames[i]) : TakeJob(args, MaxSeqJobs)
  \/ \E fail \in InvokeFails : Invoke(fail)
  \/ \E fail \in RowFails : BackfillRow(fail)
  \/ \E fail \in EndFails : ReorgEnd(fail)
  \/ ReorgTimeout
SpecJobs == InitJobs /\ [][NextJobs]_vars

\* ------------------------------------------- the schema mutators alone
MutTables == {[Columns |-> Public2, Indices |-> ix] :
                ix \in {<<<<1>>>>, <<<<0>>, <<1, 0>>>>, <<<<0, 1>>, <<1>>>>}}

InitMut ==
  /\ tbl \in MutTables
  /\ job = NoJob
  /\ njobs = 0
  /\ rows = Handles
  /\ colv = [h \in Handles |-> "nil"]
  /\ ver = 1
  /\ hist = [v \in Versions |-> IF v = 1 THEN rows ELSE {}]
  /\ hasOther = FALSE
  /\ pc = "idle" /\ sver = 0 /\ it = NoKey
  /\ persisted = <<>>
  /\ last = NoLast
  /\ lastRow = NoRow
  /\ mut = NoMut
  /\ rtx = NoRtx

MutSpecs(n, cols) ==
  {Spec0(n, ColumnPositionNone, "", TRUE, TRUE),
   Spec0(n, ColumnPositionNone, "", TRUE, FALSE),
   Spec0(n, ColumnPositionFirst, "", TRUE, TRUE)}
    \cup {Spec0(n, ColumnPositionAfter, x, TRUE, TRUE) :
            x \in {cols[i].Name : i \in 1..Len(cols)} \cup {"z"}}

\* addColumn applied to the table as it stands.
MutAdd(spec) ==
  /\ Len(tbl.Columns) < MaxCols
  /\ tbl' = addColumn(tbl, spec).tbl
  /\ mut' = [op |-> "add", pre |-> tbl, spec |-> spec,
             err |-> addColumn(tbl, spec).err]
  /\ UNCHANGED <<job, njobs, storeVars, scanVars, persisted, last, lastRow,
                 rtx>>

\* adjustColumnOffset applied to the table as it stands.
MutAdjust ==
  /\ tbl' = adjustColumnOffset(tbl)
  /\ mut' = [op |-> "adjust", pre |-> tbl, spec |-> NoArgs, err |-> FALSE]
  /\ UNCHANGED <<job, njobs, storeVars, scanVars, persisted, last, lastRow,
                 rtx>>

NextMut ==
  \/ \E spec \in MutSpecs(NewNames[Len(tbl.Columns) - 1], tbl.Columns) :
       MutAdd(spec)
  \/ MutAdjust

SpecMutator == InitMut /\ [][NextMut]_vars

\* --------------------------- the per-row transaction under concurrency
\* The store's transactions are optimistic: a transaction reads the store as
\* of its start version and its commit fails when a key it locked or wrote
\* has been committed by another transaction since.
\* Lines 263 and 270: the keys the backfill transaction locks and sets.
BackfillTxnKeysNoLock(h) == {<<"col", h>>}
BackfillTxnKeys(h) == {<<"row", h>>, <<"col", h>>}

KeyVer(k) == IF k[1] = "row" THEN rtx.rowVer[k[2]] ELSE rtx.colVer[k[2]]
Conflict(keys, start) == \E k \in keys : KeyVer(k) > start
Bump(keys, field, v) ==
  [h \in Handles |-> IF <<field, h>> \in keys THEN v
                     ELSE IF field = "row" THEN rtx.rowVer[h]
                     ELSE rtx.colVer[h]]

InitTxn ==
  /\ tbl = InitTable
  /\ job = NoJob
  /\ njobs = 0
  /\ rows \in SUBSET Handles
  /\ colv \in [Handles -> {"nil", "w"}]
  /\ \A h \in Handles : h \notin rows => colv[h] = "nil"
  /\ ver = 1
  /\ hist = [v \in Versions |-> IF v = 1 THEN rows ELSE {}]
  /\ hasOther = FALSE
  /\ pc = "idle" /\ sver = 0 /\ it = NoKey
  /\ persisted = <<>>
  /\ last = NoLast
  /\ lastRow = NoRow
  /\ mut = NoMut
  /\ rtx = NoRtx

txnFrame == <<tbl, job, njobs, hist, hasOther, scanVars, persisted, last,
              lastRow, mut>>

\* kv.RunInNewTxn opens the transaction of row h; lines 245 and 254 read
\* the row and the column key as of its start version.
RowTxnBegin(h) ==
  /\ rtx.b.pc # "open"
  /\ rtx.b.pc = "retry" => rtx.b.h = h
  /\ rtx' = [rtx EXCEPT !.b = [pc |-> "open", h |-> h, start |-> ver,
                               exist |-> h \in rows, had |-> colv[h],
                               tries |-> IF rtx.b.pc = "retry"
                                         THEN rtx.b.tries ELSE 0]]
  /\ UNCHANGED <<rows, colv, ver, txnFrame>>

\* The function returned and RunInNewTxn commits; a conflict makes it run
\* the function again in a new transaction (retryable is true).
RowTxnCommit ==
  /\ rtx.b.pc = "open"
  /\ LET b == rtx.b
         r == BackfillRowTxn(b.exist, b.had, "none")
         keys == BackfillTxnKeys(b.h)
     IN IF ~r.write
        THEN /\ rtx' = [rtx EXCEPT !.b.pc = "done"]
             /\ UNCHANGED <<colv, ver>>
        ELSE IF Conflict(keys, b.start)
        THEN /\ rtx' = [rtx EXCEPT !.b.pc = "retry", !.b.tries = @ + 1]
             /\ UNCHANGED <<colv, ver>>
        ELSE /\ ver < MaxVer
             /\ ver' = ver + 1
             /\ colv' = [colv EXCEPT ![b.h] = "dflt"]
             /\ rtx' = [rtx EXCEPT !.b.pc = "done",
                                   !.rowVer = Bump(keys, "row", ver + 1),
                                   !.colVer = Bump(keys, "col", ver + 1)]
  /\ UNCHANGED <<rows, txnFrame>>

\* A concurrent statement opens a transaction that deletes row h.
DeleteBegin(h) ==
  /\ rtx.d.pc # "open"
  /\ rtx' = [rtx EXCEPT !.d = [pc |-> "open", h |-> h, start |-> ver,
                               exist |-> h \in rows, had |-> colv[h],
                               tries |-> 0]]
  /\ UNCHANGED <<rows, colv, ver, txnFrame>>

\* It deletes the keys of the row it read and commits.
DeleteCommit ==
  /\ rtx.d.pc = "open"
  /\ LET d == rtx.d
         keys == {<<"row", d.h>>}
                   \cup (IF d.had # "nil" THEN {<<"col", d.h>>} ELSE {})
     IN IF ~d.exist
        THEN /\ rtx' = [rtx EXCEPT !.d.pc = "done"]
             /\ UNCHANGED <<rows, colv, ver>>
        ELSE IF Conflict(keys, d.start)
        THEN /\ rtx' = [rtx EXCEPT !.d.pc = "failed"]
             /\ UNCHANGED <<rows, colv, ver>>
        ELSE /\ ver < MaxVer
             /\ ver' = ver + 1
             /\ rows' = rows \ {d.h}
             /\ colv' = IF d.had # "nil" THEN [colv EXCEPT ![d.h] = "nil"]
                        ELSE colv
             /\ rtx' = [rtx EXCEPT !.d.pc = "done", !.d.tries = 1,
                                   !.rowVer = Bump(keys, "row", ver + 1),
                                   !.colVer = Bump(keys, "col", ver + 1)]
  /\ UNCHANGED txnFrame

NextTxn ==
  \/ \E h \in Handles : RowTxnBegin(h)
  \/ RowTxnCommit
  \/ \E h \in Handles : DeleteBegin(h)
  \/ DeleteCommit

SpecRowTxn == InitTxn /\ [][NextTxn]_vars

\* =============================================================== claims
JobName == job.Args.Name
IsNewName(n) == \E i \in 1..Len(NewNames) : NewNames[i] = n
PhaseSeq == <<StateDeleteOnly, StateWriteOnly, StateReorgnization,
              StatePublic>>

\* C1: for one valid add-column job, the column states UpdateTable persists
\* are DeleteOnly, WriteOnly, Reorganization, Public in that order, none
\* skipped, repeated or out of order; the persisted TableInfo always shows
\* the state of the last transition, and a job is Done only after all four.
C1_PhaseSequence ==
  /\ Len(persisted) <= Len(PhaseSeq)
  /\ persisted = SubSeq(PhaseSeq, 1, Len(persisted))
  /\ (job.State \in {JobRunning, JobDone} /\ IsNewName(JobName)) =>
       ColState(tbl, JobName) =
         IF persisted = <<>> THEN StateNone ELSE persisted[Len(persisted)]
  /\ job.State = JobDone => persisted = PhaseSeq
C1_Witness == job.State = JobDone /\ persisted = PhaseSeq

\* C2: when the reorganization invocation makes the column Public, every
\* row of the anchored snapshot that still exists in the live store has a
\* value of the new column, also when a per-row transaction failed.
C2_BackfillComplete ==
  [][(pc = "scan" /\ job'.State = JobDone) =>
       \A h \in hist[job.SnapshotVer] \cap rows' : colv'[h] # "nil"]_vars

\* C3: a per-row backfill transaction that finds the column's value already
\* stored for its row writes nothing to that column key.
C3_NoRewrite ==
  (lastRow.h # 0 /\ lastRow.had # "nil") => ~lastRow.wrote

\* C4: once the job's SnapshotVer is a non-zero V (the current version at
\* the time it was read), it keeps V for the rest of the job, and every
\* backfill run of the job scans at V.
C4_AnchoredSnapshot ==
  [][/\ (njobs' = njobs /\ job.SnapshotVer # 0) =>
          job'.SnapshotVer = job.SnapshotVer
     /\ (job.SnapshotVer = 0 /\ job'.SnapshotVer # 0) =>
          job'.SnapshotVer = ver
     /\ pc' = "scan" => (sver' # 0 /\ sver' = job'.SnapshotVer)]_vars
C4_Witness ==
  pc = "scan" /\ last.kind = "reuse" /\ sver = job.SnapshotVer /\ ver > sver

\* C5: an invocation whose arguments do not decode, whose column is already
\* Public, or whose AFTER column does not exist sets the job Cancelled,
\* returns an error, calls neither GenSchemaVersion nor UpdateTable and
\* leaves the persisted TableInfo unchanged.
InvalidArgs(t, args) ==
  \/ ~args.DecodeOK
  \/ ColState(t, args.Name) = StatePublic
  \/ /\ findCol(t.Columns, args.Name) = 0
     /\ args.PosType = ColumnPositionAfter
     /\ findCol(t.Columns, args.RelativeColumn) = 0
InvokeReturns ==
  job.State = JobRunning /\ pc = "idle" /\ pc' = "idle" /\ njobs' = njobs
    /\ storeVars' = storeVars
C5_ValidationCancels ==
  [][(InvokeReturns /\ InvalidArgs(tbl, job.Args)
        /\ last'.kind # "getTableInfo") =>
       (/\ job'.State = JobCancelled
        /\ last'.ret = "err"
        /\ last'.gen = "no"
        /\ last'.upd = 0
        /\ tbl' = tbl)]_vars
C5_Witness ==
  job.State = JobCancelled /\ last.kind = "dup" /\ last.ret = "err"
    /\ JobName = "a" /\ tbl = InitTable

\* C6: when runReorgJob reports the timeout, onColumnAdd returns nil and
\* changes nothing: column state and SchemaState stay Reorganization, the
\* job stays Running with its anchored SnapshotVer, the offsets are not
\* adjusted and UpdateTable is not called.
C6_TimeoutNoTransition ==
  [][(pc = "scan" /\ pc' = "idle" /\ last'.kind = "timeout") =>
       (/\ last'.ret = "nil"
        /\ last'.upd = 0
        /\ tbl' = tbl
        /\ ColState(tbl', JobName) = StateReorgnization
        /\ job' = job
        /\ job'.State = JobRunning
        /\ job'.SchemaState = StateReorgnization
        /\ job'.SnapshotVer = sver /\ sver # 0)]_vars
C6_Witness ==
  last.kind = "timeout" /\ pc = "idle" /\ job.State = JobRunning
    /\ job.SnapshotVer # 0
    /\ \E i \in 1..Len(tbl.Columns) :
         tbl.Columns[i].Offset # tbl.Columns[i].TempOffset

\* C7: on every table whose Offsets are a permutation of 0..N-1, addColumn
\* puts the new column at index 0 for first, right after X for after-X and
\* last by default, gives it state None and Offset N, and sets every
\* TempOffset to the column's index.
IsPermutation(cols) ==
  {cols[i].Offset : i \in 1..Len(cols)} = 0..(Len(cols) - 1)
AddedAt(pre, post, spec) ==
  LET N == Len(pre.Columns)
      i == findCol(post.Columns, spec.Name)
  IN /\ Len(post.Columns) = N + 1
     /\ i # 0
     /\ spec.PosType = ColumnPositionFirst => i = 1
     /\ spec.PosType = ColumnPositionAfter =>
          (i > 1 /\ post.Columns[i-1].Name = spec.RelativeColumn)
     /\ spec.PosType = ColumnPositionNone => i = N + 1
     /\ post.Columns[i].State = StateNone
     /\ post.Columns[i].Offset = N
     /\ \A k \in 1..(N + 1) : post.Columns[k].TempOffset = k - 1
C7_InsertPosition ==
  (mut.op = "add" /\ ~mut.err /\ IsPermutation(mut.pre.Columns)) =>
     AddedAt(mut.pre, tbl, mut.spec)

\* C8: adjustColumnOffset sets every Offset to the TempOffset, and every
\* index column reference designates after the call the one column it
\* designated before it.
C8_AdjustOffsets ==
  mut.op = "adjust" =>
    /\ Len(tbl.Columns) = Len(mut.pre.Columns)
    /\ \A i \in 1..Len(tbl.Columns) :
         /\ tbl.Columns[i].Offset = mut.pre.Columns[i].TempOffset
         /\ tbl.Columns[i].Name = mut.pre.Columns[i].Name
    /\ Len(tbl.Indices) = Len(mut.pre.Indices)
    /\ \A k \in 1..Len(tbl.Indices) :
         /\ Len(tbl.Indices[k]) = Len(mut.pre.Indices[k])
         /\ \A n \in 1..Len(tbl.Indices[k]) :
              \E i \in 1..Len(tbl.Columns) :
                /\ mut.pre.Columns[i].Offset = mut.pre.Indices[k][n]
                /\ tbl.Columns[i].Offset = tbl.Indices[k][n]
                /\ \A j \in 1..Len(tbl.Columns) :
                     tbl.Columns[j].Offset = tbl.Indices[k][n] => j = i
\* columns [a, b], c added after a, index on b: its reference moves 1 -> 2.
C8_Witness ==
  /\ mut.op = "adjust"
  /\ Len(tbl.Columns) = 3
  /\ tbl.Columns[2].Name = "c" /\ tbl.Columns[3].Name = "b"
  /\ mut.pre.Indices = <<<<1>>>> /\ tbl.Indices = <<<<2>>>>

\* C9: the per-row transaction of a snapshot row that is absent from the
\* live store writes nothing and returns no error, and the scan goes on to
\* the next key.
C9_DeletedRowSkipped ==
  (lastRow.h # 0 /\ lastRow.checked /\ ~lastRow.existed) =>
    /\ ~lastRow.wrote
    /\ ~lastRow.err
    /\ pc = "scan"
    /\ it = NextUntil(SnapKeys(sver), RecordKey(lastRow.h))
\* the skipped row was the scan's last: the run is about to report success.
C9_Witness ==
  /\ lastRow.h # 0 /\ lastRow.checked /\ ~lastRow.existed
  /\ lastRow.h \in hist[sver] /\ lastRow.h \notin rows
  /\ ENABLED ReorgEnd("none")

\* C10: under the fairness of LiveSpec a valid add-column job eventually is
\* Done with its column Public.
ValidJob ==
  job.State = JobRunning /\ ~InvalidArgs(tbl, job.Args) /\ job.Args.ColumnOK
C10_EventuallyDone ==
  ValidJob ~> (job.State = JobDone /\ ColState(tbl, JobName) = StatePublic)
C10_Witness ==
  job.State = JobDone /\ ColState(tbl, JobName) = StatePublic
    /\ IsNewName(JobName)

\* C11: an invocation moves the column at most one phase forward and calls
\* UpdateTable at most once; a phase transition below Public does no reorg
\* work (no scan, no column write, no version read), and an invocation that
\* runs the backfill makes no transition but Reorganization to Public.
PhaseIndex(st) ==
  CASE st = StateNone -> 0
    [] st = StateDeleteOnly -> 1
    [] st = StateWriteOnly -> 2
    [] st = StateReorgnization -> 3
    [] st = StatePublic -> 4
C11_OnePhasePerInvocation ==
  [][njobs' = njobs =>
       LET old == ColState(tbl, JobName)
           new == ColState(tbl', JobName)
       IN /\ last'.upd <= 1
          /\ PhaseIndex(new) - PhaseIndex(old) \in {0, 1}
          /\ (new # old /\ new # StatePublic) =>
               (/\ pc = "idle" /\ pc' = "idle"
                /\ colv' = colv
                /\ job'.SnapshotVer = 0)
          /\ pc' = "scan" => new = StateReorgnization
          /\ (pc = "scan" /\ new # old) =>
               (old = StateReorgnization /\ new = StatePublic)
          /\ (new # old /\ new = StatePublic) => pc = "scan"]_vars
C11_Witness ==
  /\ last.kind = "transition" /\ last.ret = "nil" /\ last.upd = 1
  /\ ColState(tbl, JobName) = StateReorgnization
  /\ job.SnapshotVer = 0 /\ pc = "idle"
  /\ \A h \in Handles : colv[h] # "dflt"

\* C12: however a per-row backfill transaction and a transaction deleting
\* the same row interleave, once both have finished no row that is absent
\* from the live store holds a value of the new column.
C12_NoResurrection ==
  (rtx.b.pc # "open" /\ rtx.d.pc # "open") =>
     \A h \in Handles : h \notin rows => colv[h] = "nil"
\* the delete committed while the backfill transaction of the row was open;
\* the backfill met the conflict, ran again and skipped the row.
C12_Witness ==
  /\ rtx.b.pc = "done" /\ rtx.d.pc = "done" /\ rtx.d.tries = 1
  /\ rtx.b.h = rtx.d.h /\ rtx.b.h # 0
  /\ rtx.b.tries >= 1
  /\ ~rtx.b.exist
  /\ rtx.b.h \notin rows /\ colv[rtx.b.h] = "nil"

\* C13: when the backfill ends with an error other than the timeout, the
\* invocation returns the error, the persisted TableInfo is not written and
\* keeps the column in Reorganization, the job stays Running and keeps the
\* SnapshotVer it was anchored at.
C13_BackfillErrorRetries ==
  [][(njobs' = njobs /\ pc' = "idle" /\ last'.kind \in {"backfill", "Commit"}
        /\ (pc = "scan" \/ last' # last \/ job' # job)) =>
       (/\ last'.ret = "err"
        /\ last'.upd = 0
        /\ tbl' = tbl
        /\ ColState(tbl', JobName) = StateReorgnization
        /\ job'.State = JobRunning
        /\ job'.SchemaState = job.SchemaState
        /\ job'.SnapshotVer # 0
        /\ job.SnapshotVer # 0 => job'.SnapshotVer = job.SnapshotVer
        /\ pc = "scan" => job'.SnapshotVer = sver)]_vars
\* the scan had backfilled a row when the iterator or the commit failed.
C13_Witness ==
  /\ last.kind \in {"backfill", "Commit"} /\ last.ret = "err" /\ pc = "idle"
  /\ job.State = JobRunning /\ job.SnapshotVer # 0
  /\ ColState(tbl, JobName) = StateReorgnization
  /\ \E h \in Handles : colv[h] = "dflt"

\* C14: in every persisted TableInfo, across any sequence of add-column
\* jobs, the Offsets of the N columns are exactly 0..N-1, and while no job
\* is in flight each column's Offset is its index in the column list.
C14_OffsetsPermutation ==
  /\ IsPermutation(tbl.Columns)
  /\ job.State # JobRunning =>
       \A i \in 1..Len(tbl.Columns) : tbl.Columns[i].Offset = i - 1
\* two jobs are done, the second placed its column after the first job's
\* column, ahead of an older column.
C14_Witness ==
  /\ njobs = 2 /\ job.State = JobDone
  /\ Len(tbl.Columns) = 4
  /\ job.Args.PosType = ColumnPositionAfter /\ job.Args.RelativeColumn = "c"
  /\ findCol(tbl.Columns, "d") = findCol(tbl.Columns, "c") + 1
  /\ findCol(tbl.Columns, "d") < 4

\* C15: job.State is Done only if the persisted TableInfo holds the new
\* column Public with Offset = TempOffset for every column; the adjusted
\* Offsets and index references are persisted once per job, by the
\* UpdateTable that makes the column Public, and when that UpdateTable fails
\* the job is not Done and nothing is persisted.
OffsetsAdjusted(t) ==
  \A i \in 1..Len(t.Columns) : t.Columns[i].Offset = t.Columns[i].TempOffset
OffsetsMoved(t, u) ==
  \/ t.Indices # u.Indices
  \/ \E i \in 1..Len(t.Columns) :
       LET k == findCol(u.Columns, t.Columns[i].Name)
       IN k # 0 /\ u.Columns[k].Offset # t.Columns[i].Offset
C15_DoneOnlyAdjusted ==
  [][njobs' = njobs =>
       (/\ job'.State = JobDone =>
             /\ ColState(tbl', job'.Args.Name) = StatePublic
             /\ OffsetsAdjusted(tbl')
             /\ Len(SelectSeq(persisted', LAMBDA x : x = StatePublic)) = 1
        /\ OffsetsMoved(tbl, tbl') =>
             /\ pc = "scan" /\ pc' = "idle"
             /\ ColState(tbl, JobName) = StateReorgnization
             /\ ColState(tbl', JobName) = StatePublic
             /\ job.State = JobRunning /\ job'.State = JobDone
             /\ last'.upd = 1 /\ last'.ret = "nil"
        /\ (pc = "scan" /\ pc' = "idle" /\ last'.upd = 1
              /\ last'.ret = "err") =>
             /\ job'.State = JobRunning
             /\ job' = job
             /\ tbl' = tbl
             /\ persisted' = persisted)]_vars
\* a job is Done whose column went in front: the Offsets of the older
\* columns and the index references were rewritten.
C15_Witness ==
  /\ job.State = JobDone /\ IsNewName(JobName)
  /\ findCol(tbl.Columns, JobName) = 1
  /\ OffsetsAdjusted(tbl)
  /\ tbl.Indices # InitTable.Indices
  /\ last.upd = 1

\* C16: whenever an invocation of onColumnAdd has returned, with or without
\* an error, job.SchemaState equals the state of the job's column in the
\* persisted TableInfo (None while the column is not there).
C16_SchemaStateMirrors ==
  (pc = "idle" /\ last.kind # "none" /\ IsNewName(JobName)
     /\ job.State \in {JobRunning, JobDone}) =>
    job.SchemaState = ColState(tbl, JobName)

\* C17: every write of the TableInfo before the one that makes the column
\* Public leaves the index column references and the Name, Offset and State
\* of every pre-existing column as they were; only the new column's entry
\* (appended physically: Offset = old column count), its state, the list
\* order and the TempOffsets change.
C17_PhysicalLayoutKept ==
  [][(tbl' # tbl /\ ColState(tbl', JobName) # StatePublic) =>
       (/\ tbl'.Indices = tbl.Indices
        /\ \A i \in 1..Len(tbl.Columns) :
             LET c == tbl.Columns[i]
                 k == findCol(tbl'.Columns, c.Name)
             IN /\ k # 0
                /\ tbl'.Columns[k].Offset = c.Offset
                /\ c.Name # JobName => tbl'.Columns[k].State = c.State
        /\ \A k \in 1..Len(tbl'.Columns) :
             findCol(tbl.Columns, tbl'.Columns[k].Name) = 0 =>
               /\ tbl'.Columns[k].Name = JobName
               /\ tbl'.Columns[k].Offset = Len(tbl.Columns)
               /\ tbl'.Columns[k].TempOffset = k - 1
        /\ Len(tbl'.Columns) \in {Len(tbl.Columns), Len(tbl.Columns) + 1}
        /\ \A i, j \in 1..Len(tbl.Columns) :
             (i < j /\ tbl.Columns[i].Name # JobName
                /\ tbl.Columns[j].Name # JobName) =>
               findCol(tbl'.Columns, tbl.Columns[i].Name)
                 < findCol(tbl'.Columns, tbl.Columns[j].Name))]_vars
\* in the Reorganization phase the new column stands first in the list
\* while the older columns still carry Offsets 0 and 1 and the indexes the
\* references they had.
C17_Witness ==
  /\ job.State = JobRunning /\ IsNewName(JobName)
  /\ ColState(tbl, JobName) = StateReorgnization
  /\ findCol(tbl.Columns, JobName) = 1
  /\ tbl.Columns[1].Offset = 2
  /\ tbl.Columns[2].Offset = 0 /\ tbl.Columns[2].TempOffset = 1
  /\ tbl.Columns[3].Offset = 1 /\ tbl.Columns[3].TempOffset = 2
  /\ tbl.Indices = InitTable.Indices

\* C18: within one run of backfillColumn the handles gone through are, in
\* strictly ascending order and once each, the snapshot's rows of the table
\* that lie before the iterator; the loop takes no key outside the table's
\* prefix, and once the keys have ended or a key outside the prefix is
\* reached every row of the snapshot has been gone through and the run ends
\* with the result of txn.Commit, an iteration error being impossible.
Ascending(S) ==
  CHOOSE q \in [1..Cardinality(S) -> S] :
    \A i, j \in 1..Cardinality(S) : i < j => q[i] < q[j]
LoopEnded == IF it = NoKey THEN TRUE ELSE ~HasPrefix(it)
ScanDone ==
  {h \in hist[sver] :
     IF it = NoKey THEN TRUE
     ELSE KeyLess(RecordKey(h), it)}
ScanOrdered == pc = "scan" => lastRow.seq = Ascending(ScanDone)
C19_CancelOnlyFromNone ==
  [][(job'.State = JobCancelled /\ job.State # JobCancelled) =>
       (/\ job.State = JobRunning
        /\ persisted = <<>>
        /\ job.Args.Name # "" =>
             ColState(tbl, JobName) \notin
               {StateDeleteOnly, StateWriteOnly, StateReorgnization})]_vars

\* C20: an invocation calls UpdateTable only after its GenSchemaVersion
\* call succeeded; an invocation whose GenSchemaVersion fails returns the
\* error and leaves the job, the persisted TableInfo (and the column state
\* in it) and the row data as they were.
C20_VersionBeforeUpdate ==
  [][/\ last'.upd > 0 => last'.gen = "ok"
     /\ last'.gen = "fail" => last'.kind = "gen"
     /\ (InvokeReturns /\ last'.kind = "gen") =>
          /\ last'.ret = "err"
          /\ last'.upd = 0
          /\ job' = job
          /\ tbl' = tbl
          /\ persisted' = persisted
          /\ colv' = colv]_vars
\* GenSchemaVersion failed in the invocation that was to move the column
\* from WriteOnly to Reorganization.
C20_Witness ==
  /\ last.kind = "gen" /\ last.ret = "err" /\ last.gen = "fail"
  /\ pc = "idle" /\ job.State = JobRunning
  /\ ColState(tbl, JobName) = StateWriteOnly
  /\ job.SchemaState = StateWriteOnly
====
